---- MODULE Spec2Model ----
(***************************************************************************)
(* Model of the Notion workspace name resolver                             *)
(* (backend/open_webui/notion_workspace_manager.py) and of the router      *)
(* endpoints that report its matches.                                      *)
(*                                                                         *)
(* Strings are sequences of one-character strings.  Scores are exact       *)
(* fractions [n, d] (value n/d, d > 0): every comparison the code makes    *)
(* between two floating-point scores has the same outcome as the           *)
(* comparison of the fractions, because the scores are either decimal      *)
(* literals, a correctly rounded quotient 2M/T with T small, or a fixed    *)
(* literal sum plus half such a quotient.                                  *)
(***************************************************************************)
EXTENDS Integers, Sequences, FiniteSets, TLC

(***************************************************************************)
(* Python str operations                                                   *)
(***************************************************************************)

\* str.lower() on one character: the upper-case letters of the model's alphabet.
LowerChar(c) ==
    CASE c = "A" -> "a"
      [] c = "B" -> "b"
      [] c = "D" -> "d"
      [] c = "K" -> "k"
      [] OTHER -> c

\* str.isspace() on one character.
IsSpace(c) == c \in {" ", "\t"}

\* str.lower()
Lower(s) == [i \in 1..Len(s) |-> LowerChar(s[i])]

\* str.lstrip()
RECURSIVE LStrip(_)
LStrip(s) ==
    IF s # <<>> /\ IsSpace(Head(s)) THEN LStrip(Tail(s)) ELSE s

\* str.rstrip()
RECURSIVE RStrip(_)
RStrip(s) ==
    IF s # <<>> /\ IsSpace(s[Len(s)]) THEN RStrip(SubSeq(s, 1, Len(s) - 1)) ELSE s

\* str.strip()
Strip(s) == RStrip(LStrip(s))

\* Length of the whitespace-free run of s that starts at position i.
RECURSIVE TokenLen(_, _)
TokenLen(s, i) ==
    IF i > Len(s) \/ IsSpace(s[i]) THEN 0 ELSE 1 + TokenLen(s, i + 1)

\* str.split() with no separator: the maximal whitespace-free runs from
\* position i on, in order.
RECURSIVE SplitFrom(_, _)
SplitFrom(s, i) ==
    IF i > Len(s) THEN <<>>
    ELSE IF IsSpace(s[i]) THEN SplitFrom(s, i + 1)
    ELSE <<SubSeq(s, i, i + TokenLen(s, i) - 1)>> \o SplitFrom(s, i + TokenLen(s, i))

Split(s) == SplitFrom(s, 1)

\* str.startswith(p)
StartsWith(s, p) == Len(p) <= Len(s) /\ SubSeq(s, 1, Len(p)) = p

\* p in s (substring test)
Contains(s, p) ==
    \E i \in 0..(Len(s) - Len(p)) : SubSeq(s, i + 1, i + Len(p)) = p

\* "".join([p[0].lower() for p in parts if p])
Initials(parts) == [i \in 1..Len(parts) |-> LowerChar(parts[i][1])]

\* parts[1:-1]
Middle(parts) == SubSeq(parts, 2, Len(parts) - 1)

(***************************************************************************)
(* difflib.SequenceMatcher(None, a, b).ratio()                             *)
(***************************************************************************)

\* Length of the common run of a from position i and b from position j.
RECURSIVE CommonLen(_, _, _, _)
CommonLen(a, b, i, j) ==
    IF i > Len(a) \/ j > Len(b) \/ a[i] # b[j] THEN 0
    ELSE 1 + CommonLen(a, b, i + 1, j + 1)

\* The largest and the smallest element of a non-empty set of numbers.
MaxOf(S) == CHOOSE x \in S : \A y \in S : y <= x
MinOf(S) == CHOOSE x \in S : \A y \in S : x <= y

\* The size of the longest common block of a and b (both non-empty).
LongestLen(a, b) ==
    MaxOf({CommonLen(a, b, p[1], p[2]) : p \in (1..Len(a)) \X (1..Len(b))})

\* The earliest start in a of a common block of size k.
FirstInA(a, b, k) ==
    MinOf({i \in 1..Len(a) : \E j \in 1..Len(b) : CommonLen(a, b, i, j) = k})

\* The earliest start in b of a common block of size k that starts at i in a.
FirstInB(a, b, k, i) ==
    MinOf({j \in 1..Len(b) : CommonLen(a, b, i, j) = k})

BlockAt(a, b, k, i) == [i |-> i, j |-> FirstInB(a, b, k, i), k |-> k]

BlockOfLen(a, b, k) ==
    IF k = 0 THEN [i |-> 1, j |-> 1, k |-> 0] ELSE BlockAt(a, b, k, FirstInA(a, b, k))

\* find_longest_match over the whole of a and b (both non-empty): the longest
\* common block, of those the one starting earliest in a, and of those the
\* one starting earliest in b.
FindLongestMatch(a, b) == BlockOfLen(a, b, LongestLen(a, b))

\* Sum of the sizes of get_matching_blocks(): the longest block m, then the
\* blocks of the pieces to its left and of the pieces to its right.
RECURSIVE MatchCount(_, _)
RECURSIVE BlocksAround(_, _, _)
BlocksAround(a, b, m) ==
    IF m.k = 0 THEN 0
    ELSE m.k
         + MatchCount(SubSeq(a, 1, m.i - 1), SubSeq(b, 1, m.j - 1))
         + MatchCount(SubSeq(a, m.i + m.k, Len(a)), SubSeq(b, m.j + m.k, Len(b)))

MatchCount(a, b) ==
    IF a = <<>> \/ b = <<>> THEN 0 ELSE BlocksAround(a, b, FindLongestMatch(a, b))

\* ratio() = 2.0 * matches / (len(a) + len(b)), and 1.0 for two empty strings.
Ratio(a, b) ==
    IF Len(a) + Len(b) = 0 THEN [n |-> 1, d |-> 1]
    ELSE [n |-> 2 * MatchCount(a, b), d |-> Len(a) + Len(b)]

(***************************************************************************)
(* Scores                                                                  *)
(***************************************************************************)
Frac(n, d) == [n |-> n, d |-> d]

\* x > y, x >= y and x == y on scores
ScoreGT(x, y) == x.n * y.d > y.n * x.d
ScoreGE(x, y) == x.n * y.d >= y.n * x.d
ScoreEQ(x, y) == x.n * y.d = y.n * x.d

\* max(x, y): the first of two equal arguments.
Max2(x, y) == IF ScoreGE(x, y) THEN x ELSE y

\* max(scores) of a non-empty list.
RECURSIVE MaxScore(_)
MaxScore(scores) ==
    IF Len(scores) = 1 THEN scores[1] ELSE Max2(scores[1], MaxScore(Tail(scores)))

\* x + y on scores, and the sum of a non-empty list.
Add2(x, y) == Frac(x.n * y.d + y.n * x.d, x.d * y.d)
RECURSIVE SumScores(_)
SumScores(scores) ==
    IF Len(scores) = 1 THEN scores[1] ELSE Add2(scores[1], SumScores(Tail(scores)))

(***************************************************************************)
(* Inputs: the names a directory entry can carry, the directories, and     *)
(* the queries a caller can send.                                          *)
(***************************************************************************)
MaxMembers == 2
MaxLimit == 3

\* get_name_suggestions(self, partial_name, limit=5)
DefaultLimit == 5

DineshKumar == <<"D","i","n","e","s","h"," ","K","u","m","a","r">>
DivyaKumar == <<"D","i","v","y","a"," ","K","u","m","a","r">>

NamePool ==
    { DineshKumar, DivyaKumar,
      <<"a","b">>, <<"A","b"," ","c","d">>, <<"c","d"," ","a","b">>,
      <<"a"," ","b"," ","c">>, <<"a"," ","b">>, <<" ","a","b"," ">>,
      <<>>, <<" ">> }

QueryPool ==
    NamePool \cup
    { <<"D","i","n","e","s","h">>, <<"D","i","n","e","s">>, <<"K","u","m","a","r">>,
      <<"D","i">>, <<"D","i","v","y","a">>,
      <<"A","B">>, <<"A","b">>, <<"a">>, <<"b">>, <<"c">>, <<"c","d">>,
      <<"a","b","c">>, <<"a","b","d">>, <<"k","d">>, <<"\t">>,
      <<"a","b"," ","k","k">> }

\* Directory ids, by position in the directory.
IdOf == <<"u1", "u2", "u3", "u4">>

\* The directories: every sequence of at most MaxMembers entries.
Directories ==
    UNION { { [i \in 1..n |-> [id |-> IdOf[i], name |-> names[i], type |-> "person"]] :
                names \in [1..n -> NamePool] } : n \in 0..MaxMembers }

\* A JSON null where a name is expected: a value that is no string.  A string
\* is a tuple of single characters, so this one-element tuple is none of them.
Null == <<"null">>

\* What a snapshot file can hold besides well-formed person entries: json.load
\* returns the file's entries as they are - another type, a null name, an id
\* twice.
SnapshotPool ==
    { [id |-> "u1", name |-> <<"a","b">>, type |-> "person"],
      [id |-> "b1", name |-> <<"a","b">>, type |-> "bot"],
      [id |-> "u9", name |-> Null, type |-> "person"] }

Snapshots == Directories \cup UNION { [1..n -> SnapshotPool] : n \in 0..MaxMembers }

\* The limits a caller sends: limit is an unvalidated int of the request.
Limits == ((0 - 1)..MaxLimit) \cup {DefaultLimit}

(***************************************************************************)
(* NotionWorkspaceManager._build_name_mapping                              *)
(***************************************************************************)

\* A mapping whose first writer keeps the key.
PutIfAbsent(mapping, key, id) ==
    [k \in (DOMAIN mapping) \cup {key} |-> IF k \in DOMAIN mapping THEN mapping[k] ELSE id]

\* mapping[key] = id  (a dict assignment: a later write replaces an earlier one)
Put(mapping, key, id) ==
    [k \in (DOMAIN mapping) \cup {key} |-> IF k = key THEN id ELSE mapping[k]]

\* An index builder that forgets the last-token key.
KeysWithoutLast(name, parts) ==
    <<Lower(name)>>
    \o <<Lower(parts[1])>>
    \o [i \in 1..Len(Middle(parts)) |-> Lower(Middle(parts)[i])]
    \o (IF Len(parts) >= 2
        THEN << Lower(parts[1]) \o <<" ">> \o Lower(parts[Len(parts)]), Initials(parts) >>
        ELSE <<>>)

\* An index builder that forgets the keys of the interior tokens.
KeysWithoutMiddle(name, parts) ==
    <<Lower(name)>>
    \o <<Lower(parts[1])>>
    \o (IF Len(parts) > 1 THEN <<Lower(parts[Len(parts)])>> ELSE <<>>)
    \o (IF Len(parts) >= 2
        THEN << Lower(parts[1]) \o <<" ">> \o Lower(parts[Len(parts)]), Initials(parts) >>
        ELSE <<>>)

\* An index builder that writes the initials key for a single part too.
KeysWithInitialsAlways(name, parts) ==
    <<Lower(name)>>
    \o <<Lower(parts[1])>>
    \o (IF Len(parts) > 1 THEN <<Lower(parts[Len(parts)])>> ELSE <<>>)
    \o [i \in 1..Len(Middle(parts)) |-> Lower(Middle(parts)[i])]
    \o (IF Len(parts) >= 2
        THEN << Lower(parts[1]) \o <<" ">> \o Lower(parts[Len(parts)]) >>
        ELSE <<>>)
    \o <<Initials(parts)>>

\* The keys a stripped, non-empty name with the given parts writes, in the
\* order the code writes them.
KeysOfParts(name, parts) ==
    <<Lower(name)>>
    \o <<Lower(parts[1])>>
    \o (IF Len(parts) > 1 THEN <<Lower(parts[Len(parts)])>> ELSE <<>>)
    \o [i \in 1..Len(Middle(parts)) |-> Lower(Middle(parts)[i])]
    \o (IF Len(parts) >= 2
        THEN << Lower(parts[1]) \o <<" ">> \o Lower(parts[Len(parts)]), Initials(parts) >>
        ELSE <<>>)

\* "if name:" - an entry whose stripped name is empty writes nothing.
KeysOfStripped(name) == IF name = <<>> THEN <<>> ELSE KeysOfParts(name, Split(name))

\* The keys one directory entry writes.
KeysOfName(raw_name) == KeysOfStripped(Strip(raw_name))

RECURSIVE PutAll(_, _, _)
PutAll(mapping, keys, id) ==
    IF keys = <<>> THEN mapping
    ELSE PutAll(Put(mapping, Head(keys), id), Tail(keys), id)

\* "name = user.get('name', '').strip()" raises AttributeError when the name
\* is null: _build_name_mapping raises at the first such entry.
Raises(users) == \E i \in 1..Len(users) : users[i].name = Null

\* The loop over self.workspace_users, from entry i on; it ends where the
\* null name raises, with the keys written so far.
RECURSIVE BuildFrom(_, _, _)
BuildFrom(users, i, mapping) ==
    IF i > Len(users) \/ users[i].name = Null THEN mapping
    ELSE BuildFrom(users, i + 1, PutAll(mapping, KeysOfName(users[i].name), users[i].id))

\* _build_name_mapping(): no-op on an empty list, else the loop, writing into
\* the mapping the manager already holds.
BuildNameMapping(users, mapping) ==
    IF users = <<>> THEN mapping ELSE BuildFrom(users, 1, mapping)

(***************************************************************************)
(* NotionWorkspaceManager.find_user_by_name                                *)
(***************************************************************************)

\* A guard that does not look at the query.
InvalidOnlyIfNoUsers(search_name, users) == users = <<>>

\* The guard of find_user_by_name and get_name_suggestions:
\* "not search_name or not self.workspace_users".
InvalidSearch(search_name, users) == search_name = <<>> \/ users = <<>>

\* next((u for u in users if u["id"] == user_id), None), as a position; 0 is None.
FirstWithId(users, user_id) ==
    IF \E i \in 1..Len(users) : users[i].id = user_id
    THEN CHOOSE i \in 1..Len(users) :
            users[i].id = user_id /\ \A j \in 1..(i - 1) : users[j].id # user_id
    ELSE 0

\* A matcher without the containment bonus.
NeverContains(search_lower, lname) == FALSE

\* "if search_lower in user_name.lower() or user_name.lower() in search_lower"
EitherContains(search_lower, lname) ==
    Contains(lname, search_lower) \/ Contains(search_lower, lname)

\* One 0.85 for every interior part equal to the query.
MiddleScores(search_lower, middle) ==
    SelectSeq([i \in 1..Len(middle) |->
                  IF search_lower = Lower(middle[i]) THEN Frac(85, 100) ELSE Frac(0, 1)],
              LAMBDA x : x.n # 0)

\* The candidate scores of one member: lname is its lower-cased stripped
\* name, parts the parts of its stripped name.
ScoresOf(search_lower, lname, parts) ==
    <<Ratio(search_lower, lname)>>
    \o (IF EitherContains(search_lower, lname) THEN <<Frac(80, 100)>> ELSE <<>>)
    \o (IF Len(parts) > 0 /\ search_lower = Lower(parts[1])
        THEN <<Frac(95, 100)>> ELSE <<>>)
    \o (IF Len(parts) > 1 /\ search_lower = Lower(parts[Len(parts)])
        THEN <<Frac(90, 100)>> ELSE <<>>)
    \o MiddleScores(search_lower, Middle(parts))
    \o (IF search_lower = Initials(parts) THEN <<Frac(90, 100)>> ELSE <<>>)

\* A matcher that adds its candidate scores up.
SummedScore(search_lower, user_name) ==
    SumScores(ScoresOf(search_lower, Lower(user_name), Split(user_name)))

\* score = max(scores) if scores else 0.0, for a non-empty stripped name.
FuzzyScore(search_lower, user_name) ==
    MaxScore(ScoresOf(search_lower, Lower(user_name), Split(user_name)))

\* A loop in which a later member with an equal score replaces the best.
TakesBestOnTie(score, best_score) ==
    ScoreGE(score, Frac(50, 100)) /\ ScoreGE(score, best_score)

\* "if score >= 0.5: ... if score > best_score:" - does this member replace the best?
TakesBest(score, best_score) ==
    ScoreGE(score, Frac(50, 100)) /\ ScoreGT(score, best_score)

\* best_match and best_score after a member at position i scored.
Update(best, i, score) ==
    IF TakesBest(score, best.score) THEN [match |-> i, score |-> score] ELSE best

\* One iteration of the fuzzy loop: "if not user_name: continue".
Visit(best, i, search_lower, user_name) ==
    IF user_name = <<>> THEN best ELSE Update(best, i, FuzzyScore(search_lower, user_name))

\* The fuzzy loop from entry i on; best.match is a position, 0 for None.
RECURSIVE FuzzyLoop(_, _, _, _)
FuzzyLoop(users, i, search_lower, best) ==
    IF i > Len(users) THEN best
    ELSE FuzzyLoop(users, i + 1, search_lower,
                   Visit(best, i, search_lower, Strip(users[i].name)))

\* A matcher that accepts a best match from 0.9 on only.
AcceptFromNine(best) ==
    [user |-> IF best.match # 0 /\ ScoreGE(best.score, Frac(90, 100)) THEN best.match ELSE 0,
     path |-> "fuzzy", score |-> best.score]

\* "if best_match and best_score >= 0.6: return best_match", else None.
Accept(best) ==
    [user |-> IF best.match # 0 /\ ScoreGE(best.score, Frac(60, 100)) THEN best.match ELSE 0,
     path |-> "fuzzy", score |-> best.score]

\* The two paths of find_user_by_name for a normalized query.
Lookup(search_lower, users, mapping) ==
    IF search_lower \in DOMAIN mapping
    THEN [user |-> FirstWithId(users, mapping[search_lower]),
          path |-> "exact", score |-> Frac(0, 1)]
    ELSE Accept(FuzzyLoop(users, 1, search_lower, [match |-> 0, score |-> Frac(0, 1)]))

\* find_user_by_name: the position of the returned entry (0 for None), the
\* branch that returned, and the fuzzy path's best score.
FindUserByName(search_name, users, mapping) ==
    IF InvalidSearch(search_name, users)
    THEN [user |-> 0, path |-> "invalid", score |-> Frac(0, 1)]
    ELSE Lookup(Lower(Strip(search_name)), users, mapping)

\* "if user and 'id' in user: return user['id']", else None (the empty id).
IdOfFound(r, users) == IF r.user # 0 THEN users[r.user].id ELSE ""

\* get_user_id_by_name
GetUserIdByName(name, users, mapping) ==
    IdOfFound(FindUserByName(name, users, mapping), users)

(***************************************************************************)
(* NotionWorkspaceManager.get_name_suggestions                             *)
(***************************************************************************)

\* The bonuses of one member, in tenths.
Bonus(partial_lower, lname, parts) ==
      (IF StartsWith(lname, partial_lower) THEN 8 ELSE 0)
    + (IF Contains(lname, partial_lower) THEN 6 ELSE 0)
    + (IF Len(parts) > 0 /\ StartsWith(Lower(parts[1]), partial_lower) THEN 9 ELSE 0)
    + (IF Len(parts) > 1 /\ StartsWith(Lower(parts[Len(parts)]), partial_lower)
       THEN 7 ELSE 0)

\* A ranker that leaves the similarity term out.
BonusOnly(bonus, similarity) == Frac(bonus, 10)

\* score = bonus + similarity * 0.5:
\* bonus/10 + (n/d) * 0.5 = (2 * bonus * d + 10 * n) / (20 * d)
AddSimilarity(bonus, similarity) ==
    Frac(2 * bonus * similarity.d + 10 * similarity.n, 20 * similarity.d)

\* The additive relevance score of a member with a non-empty stripped name.
SuggestionScore(partial_lower, user_name) ==
    AddSimilarity(Bonus(partial_lower, Lower(user_name), Split(user_name)),
                  Ratio(partial_lower, Lower(user_name)))

\* A ranker that includes a score of exactly 0.3.
RelevantFrom(score) == ScoreGE(score, Frac(3, 10))

\* "if score > 0.3"
Relevant(score) == ScoreGT(score, Frac(3, 10))

\* "if score > 0.3: suggestions.append(...)"
Suggestion(i, score, user_name) ==
    IF Relevant(score) THEN <<[user |-> i, score |-> score, name |-> user_name]>> ELSE <<>>

\* One iteration of the suggestion loop: "if not user_name: continue".
VisitSuggestion(i, partial_lower, user_name) ==
    IF user_name = <<>> THEN <<>>
    ELSE Suggestion(i, SuggestionScore(partial_lower, user_name), user_name)

\* The loop that collects the suggestions, from entry i on.
RECURSIVE Collect(_, _, _)
Collect(users, i, partial_lower) ==
    IF i > Len(users) THEN <<>>
    ELSE VisitSuggestion(i, partial_lower, Strip(users[i].name))
         \o Collect(users, i + 1, partial_lower)

\* An unstable sort: x goes in front of the elements with an equal score.
RECURSIVE InsertBeforeEqual(_, _)
InsertBeforeEqual(sorted, x) ==
    IF sorted = <<>> THEN <<x>>
    ELSE IF ScoreGT(Head(sorted).score, x.score)
         THEN <<Head(sorted)>> \o InsertBeforeEqual(Tail(sorted), x)
         ELSE <<x>> \o sorted

\* Where list.sort(reverse=True) puts x among the already sorted elements:
\* behind every element whose score is not smaller (the sort is stable).
RECURSIVE Insert(_, _)
Insert(sorted, x) ==
    IF sorted = <<>> THEN <<x>>
    ELSE IF ScoreGE(Head(sorted).score, x.score)
         THEN <<Head(sorted)>> \o Insert(Tail(sorted), x)
         ELSE <<x>> \o sorted

RECURSIVE SortFrom(_, _, _)
SortFrom(list, i, sorted) ==
    IF i > Len(list) THEN sorted ELSE SortFrom(list, i + 1, Insert(sorted, list[i]))

\* suggestions.sort(key=lambda x: x["score"], reverse=True)
SortByScore(list) == SortFrom(list, 1, <<>>)

\* The stop index of list[:limit] for an integer limit (a negative limit
\* counts from the end).
SliceStop(len, limit) ==
    IF limit >= 0
    THEN (IF limit < len THEN limit ELSE len)
    ELSE (IF len + limit > 0 THEN len + limit ELSE 0)

\* suggestions[:limit]
Truncate(list, limit) == SubSeq(list, 1, SliceStop(Len(list), limit))

\* get_name_suggestions up to its last line: the empty list of the guard,
\* or the sorted suggestions.
RankedSuggestions(partial_name, users) ==
    IF InvalidSearch(partial_name, users) THEN <<>>
    ELSE SortByScore(Collect(users, 1, Lower(Strip(partial_name))))

GetNameSuggestions(partial_name, limit, users) ==
    Truncate(RankedSuggestions(partial_name, users), limit)

(***************************************************************************)
(* routers: match_user_name                                                *)
(***************************************************************************)

\* SequenceMatcher(None, request.name.lower(), matched_user["name"].lower()).ratio()
Confidence(name, matched_name) == Ratio(Lower(name), Lower(matched_name))

(***************************************************************************)
(* The environment of a manager: the local snapshot file and the API       *)
(***************************************************************************)

\* What GET /v1/users can list: persons, with a name or with null, and bots.
RawPool ==
    { [id |-> "p1", name |-> <<"a","b">>, object |-> "user", type |-> "person"],
      [id |-> "p2", name |-> <<"a"," ","b">>, object |-> "user", type |-> "person"],
      [id |-> "p3", name |-> Null, object |-> "user", type |-> "person"],
      [id |-> "b1", name |-> <<"a","b">>, object |-> "user", type |-> "bot"] }

ApiResults == UNION { [1..n -> RawPool] : n \in 0..MaxMembers }

\* The pages the API holds after the first one: the first response carries
\* has_more = true and a next_cursor exactly when there are any.
LaterPages ==
    { <<>>,
      << <<[id |-> "p2", name |-> <<"a"," ","b">>, object |-> "user", type |-> "person"]>> >> }

\* The person entries of an API listing, in order.
RECURSIVE PersonUsers(_)
PersonUsers(users) ==
    IF users = <<>> THEN <<>>
    ELSE (IF Head(users).object = "user" /\ Head(users).type = "person"
          THEN <<[id |-> Head(users).id, name |-> Head(users).name,
                  type |-> Head(users).type]>>
          ELSE <<>>)
         \o PersonUsers(Tail(users))

\* What the API holds for the extraction tool: at most MaxPages pages of at
\* most MaxPageLen entries each.
MaxPages == 2
MaxPageLen == 1

\* params = {"page_size": 100}
PageSize == 100

ApiPages == UNION { [1..n -> RawPool] : n \in 0..MaxPageLen }
ApiPageLists == UNION { [1..n -> ApiPages] : n \in 1..MaxPages }

\* The page a request asks for: a cursor names a page, no cursor (0) the first.
PageOf(cursor) == IF cursor = 0 THEN 1 ELSE cursor

\* The response to the request_no-th GET /v1/users of a run.  The failing
\* request gets a status other than 200 (or an exception of requests.get);
\* any other gets its page, with has_more and next_cursor while pages remain.
Response(pages, fail_at, request_no, cursor) ==
    IF request_no = fail_at
    THEN [status |-> 500, results |-> <<>>, has_more |-> FALSE, next_cursor |-> 0]
    ELSE [status |-> 200,
          results |-> pages[PageOf(cursor)],
          has_more |-> PageOf(cursor) < Len(pages),
          next_cursor |-> IF PageOf(cursor) < Len(pages) THEN PageOf(cursor) + 1 ELSE 0]

\* A provider that leaves the cursor out of the response for one of its pages,
\* although it reports has_more: data.get("next_cursor") is then None.
Answer(response, silent_page, cursor) ==
    IF response.status = 200 /\ response.has_more /\ PageOf(cursor) = silent_page
    THEN [response EXCEPT !.next_cursor = 0]
    ELSE response

\* The requests a run of the tool may send before it is stopped from outside.
MaxRequests == 4

\* fetch_users_in_batches: the person entries of one page, in order.
RECURSIVE PagePersons(_)
PagePersons(users) ==
    IF users = <<>> THEN <<>>
    ELSE (IF Head(users).object = "user" /\ Head(users).type = "person"
          THEN <<[id |-> Head(users).id, name |-> Head(users).name,
                  type |-> Head(users).type]>>
          ELSE <<>>)
         \o PagePersons(Tail(users))

\* What open() and json.load() make of one of possible_paths: no such file
\* (FileNotFoundError), a file that is not JSON (JSONDecodeError), or a list.
Missing == [kind |-> "missing", users |-> <<>>]
Invalid == [kind |-> "invalid", users |-> <<>>]
ListFile(users) == [kind |-> "list", users |-> users]

\* possible_paths
PossiblePaths == 4

\* A working directory in which only "notion_users.json" may exist.
OnlyFirst(file) == [i \in 1..PossiblePaths |-> IF i = 1 THEN file ELSE Missing]

\* The manager constructions a run may hold.
MaxConstructions == 2

VARIABLES
    files,              \* what each of possible_paths holds, in the listed order
    use_api,            \* self.use_api
    api_status,         \* "ok": status 200; "error": another status or an exception
    api_results,        \* response.json()["results"] of GET /v1/users without a cursor
    api_later,          \* the "results" of the pages behind next_cursor
    users_loaded,       \* self.workspace_users is not None
    workspace_users,    \* self.workspace_users (<<>> while it is None)
    user_name_mapping,  \* self.user_name_mapping
    pc,                 \* "new": before __init__; "idle": no call; "ret": a call has
                        \* returned; "failed": __init__ raised, there is no manager
    call,               \* the call that returned: operation and arguments
    ret,                \* what it returned
    notion_token,       \* run_extraction: NOTION_INTEGRATION_TOKEN2 is set
    api_pages,          \* the pages the API holds while the tool runs
    api_fail_at,        \* the number of the request that fails; 0: none does
    api_silent_page,    \* the page whose response carries no next_cursor; 0: none
    tool_pc,            \* "off": no run; "start"; "loop": in "while has_more";
                        \* "saved": notion_users.json written; "exit1": sys.exit(1)
    all_users,          \* fetch_users_in_batches: all_users
    has_more,           \* fetch_users_in_batches: has_more
    next_cursor,        \* fetch_users_in_batches: next_cursor (0 is None)
    requests_sent,      \* the params of the requests sent so far
    found_before,       \* an earlier find_user_by_name run that is kept for
                        \* comparison: its query and the position it returned
    loads,              \* the runs of get_workspace_users past its first two lines
    api_calls,          \* the GET /v1/users requests managers have sent
    instance,           \* the module global of the router: 0 is None, else the
                        \* number of the construction that made the manager
    constructions       \* the calls of NotionWorkspaceManager()

tool == <<notion_token, api_pages, api_fail_at, api_silent_page, tool_pc, all_users, has_more, next_cursor,
          requests_sent>>
env == <<files, use_api, api_status, api_results, api_later, tool, found_before>>
manager == <<users_loaded, workspace_users, user_name_mapping>>
served == <<loads, api_calls, instance, constructions>>
vars == <<files, use_api, api_status, api_results, api_later,
          users_loaded, workspace_users, user_name_mapping, pc, call, ret,
          notion_token, api_pages, api_fail_at, api_silent_page, tool_pc, all_users,
          has_more, next_cursor, requests_sent, found_before, loads, api_calls, instance, constructions>>

\* No run is kept.
NotFound == [set |-> FALSE, name |-> <<>>, user |-> 0, again |-> FALSE]

NoCall == [op |-> "", name |-> <<>>, limit |-> 0]
NoRet == [user |-> 0, id |-> "", path |-> "", score |-> Frac(0, 1), list |-> <<>>,
          found |-> FALSE, confidence |-> Frac(0, 1), users |-> <<>>, created_by |-> ""]

\* self.workspace_users = users; self._build_name_mapping()
Loaded(users, mapping) ==
    [users |-> users, mapping |-> BuildNameMapping(users, mapping), raised |-> Raises(users)]

\* The API branch after the filter: inside "try ... except Exception", so an
\* exception of _build_name_mapping is logged and the function goes on to
\* "self.workspace_users = []; return []", the keys written so far staying.
FromApi(person_users, mapping) ==
    IF Raises(person_users)
    THEN [users |-> <<>>, mapping |-> BuildNameMapping(person_users, mapping),
          raised |-> FALSE]
    ELSE Loaded(person_users, mapping)

\* A loader that reads possible_paths from the end: the last path from the
\* i-th on that opens and parses; 0 when none does.
RECURSIVE LastPath(_, _)
LastPath(paths, i) ==
    IF i > Len(paths) THEN 0
    ELSE IF LastPath(paths, i + 1) # 0 THEN LastPath(paths, i + 1)
    ELSE IF paths[i].kind = "list" THEN i
    ELSE 0

\* "for file_path in possible_paths": the first path from the i-th on that
\* opens and parses; 0 when none does.
RECURSIVE LocalPath(_, _)
LocalPath(paths, i) ==
    IF i > Len(paths) THEN 0
    ELSE IF paths[i].kind = "list" THEN i
    ELSE LocalPath(paths, i + 1)

\* The path that loads, and the list json.load returns for it.
has_local_file == LocalPath(files, 1) # 0
local_users == IF has_local_file THEN files[LocalPath(files, 1)].users ELSE <<>>

\* A manager that takes its empty list for a list not yet loaded.
RetriesWhenEmpty(loaded, users) == loaded /\ users # <<>>

\* "if self.workspace_users is not None: return self.workspace_users"
KeepsLoaded(loaded, users) == loaded

\* The outcome of a run that went past that check.
Attempt(r, api_called) ==
    [users |-> r.users, mapping |-> r.mapping, raised |-> r.raised,
     attempted |-> TRUE, api_called |-> api_called]

\* get_workspace_users(): the list and the mapping the manager holds
\* afterwards, and whether the call raised.  The local branch catches only
\* FileNotFoundError and JSONDecodeError.  The API branch sends one request,
\* without a cursor, and reads its "results" only.
\* Every call reports also whether it went past the check of its first two
\* lines (attempted) and whether it sent the request (api_called).
GetWorkspaceUsers(loaded, users, mapping) ==
    IF KeepsLoaded(loaded, users)
    THEN [users |-> users, mapping |-> mapping, raised |-> FALSE,
          attempted |-> FALSE, api_called |-> FALSE]
    ELSE IF LocalPath(files, 1) # 0
    THEN Attempt(Loaded(files[LocalPath(files, 1)].users, mapping), FALSE)
    ELSE IF use_api /\ api_status = "ok"
    THEN Attempt(FromApi(PersonUsers(api_results), mapping), TRUE)
    ELSE Attempt([users |-> <<>>, mapping |-> mapping, raised |-> FALSE], use_api)

\* No run of the extraction tool.
ToolOff ==
    /\ notion_token = FALSE
    /\ api_pages = <<>>
    /\ api_fail_at = 0
    /\ api_silent_page = 0
    /\ tool_pc = "off"
    /\ all_users = <<>>
    /\ has_more = FALSE
    /\ next_cursor = 0
    /\ requests_sent = <<>>
    /\ found_before = NotFound

\* Nothing has been constructed or loaded.
NothingServed ==
    /\ loads = 0
    /\ api_calls = 0
    /\ instance = 0
    /\ constructions = 0

Init ==
    /\ ToolOff
    /\ NothingServed
    /\ \/ /\ files \in {OnlyFirst(ListFile(users)) : users \in Snapshots}
          /\ use_api = TRUE
          /\ api_status = "error"
          /\ api_results = <<>>
          /\ api_later = <<>>
       \/ /\ files = OnlyFirst(Missing)
          /\ \/ use_api = FALSE /\ api_status = "error" /\ api_results = <<>>
                /\ api_later = <<>>
             \/ use_api = TRUE /\ api_status = "error" /\ api_results = <<>>
                /\ api_later = <<>>
             \/ use_api = TRUE /\ api_status = "ok" /\ api_results \in ApiResults
                /\ api_later \in LaterPages
    /\ users_loaded = FALSE
    /\ workspace_users = <<>>
    /\ user_name_mapping = <<>>
    /\ pc = "new"
    /\ call = NoCall
    /\ ret = NoRet

\* A router that holds whatever was under construction.
AssignedAlways(raised, held, made) == made

\* "_workspace_manager = NotionWorkspaceManager()": an exception leaves the
\* global as it was.
Assigned(raised, held, made) == IF raised THEN held ELSE made

\* A router that constructs a manager for every request.
NeverHeld(held) == TRUE

\* "if _workspace_manager is None:"
IsNone(held) == held = 0

\* NotionWorkspaceManager.__init__: an exception of get_workspace_users
\* leaves __init__, and the caller gets no manager.
\* It is called by get_workspace_manager() of a router while the module
\* global is None: the global is assigned when the constructor has returned.
NewManager ==
    /\ pc \in {"new", "failed", "idle"}
    /\ IsNone(instance)
    /\ constructions < MaxConstructions
    /\ constructions' = constructions + 1
    /\ \E r \in {GetWorkspaceUsers(FALSE, <<>>, <<>>)} :
        /\ users_loaded' = TRUE
        /\ workspace_users' = r.users
        /\ user_name_mapping' = r.mapping
        /\ loads' = loads + (IF r.attempted THEN 1 ELSE 0)
        /\ api_calls' = api_calls + (IF r.api_called THEN 1 ELSE 0)
        /\ instance' = Assigned(r.raised, instance, constructions + 1)
        /\ pc' = IF r.raised THEN "failed" ELSE "idle"
    /\ UNCHANGED <<env, call, ret>>

\* manager.find_user_by_name(name)
FindUser ==
    /\ pc = "idle"
    /\ \E name \in QueryPool :
        \E r \in {FindUserByName(name, workspace_users, user_name_mapping)} :
            /\ call' = [op |-> "find_user_by_name", name |-> name, limit |-> 0]
            /\ ret' = [NoRet EXCEPT !.user = r.user, !.path = r.path, !.score = r.score,
                                    !.id = IdOfFound(r, workspace_users)]
    /\ pc' = "ret"
    /\ UNCHANGED <<env, manager, served>>

\* manager.get_user_id_by_name(name)
GetUserId ==
    /\ pc = "idle"
    /\ \E name \in QueryPool :
        /\ call' = [op |-> "get_user_id_by_name", name |-> name, limit |-> 0]
        /\ ret' = [NoRet EXCEPT !.id = GetUserIdByName(name, workspace_users,
                                                       user_name_mapping)]
    /\ pc' = "ret"
    /\ UNCHANGED <<env, manager, served>>

\* A manager that learns from its suggestions: the first suggestion is
\* written into the index under the partial name.
SuggestLearning ==
    /\ pc = "idle"
    /\ \E name \in QueryPool :
        \E ranked \in {RankedSuggestions(name, workspace_users)} :
            \E limit \in Limits :
                /\ call' = [op |-> "get_name_suggestions", name |-> name, limit |-> limit]
                /\ ret' = [NoRet EXCEPT !.list = Truncate(ranked, limit)]
                /\ user_name_mapping' =
                      IF ranked = <<>> THEN user_name_mapping
                      ELSE Put(user_name_mapping, Lower(Strip(name)),
                               workspace_users[ranked[1].user].id)
    /\ pc' = "ret"
    /\ UNCHANGED <<env, users_loaded, workspace_users, served>>

\* manager.get_name_suggestions(partial_name, limit)
Suggest ==
    /\ pc = "idle"
    /\ \E name \in QueryPool :
        \E ranked \in {RankedSuggestions(name, workspace_users)} :
            \E limit \in Limits :
                /\ call' = [op |-> "get_name_suggestions", name |-> name, limit |-> limit]
                /\ ret' = [NoRet EXCEPT !.list = Truncate(ranked, limit)]
    /\ pc' = "ret"
    /\ UNCHANGED <<env, manager, served>>

\* The response of match_user_name when find_user_by_name returned r: the
\* matched entry with its confidence_score, or found = False.
MatchResponse(name, r, users) ==
    IF r.user # 0
    THEN [NoRet EXCEPT !.found = TRUE, !.user = r.user, !.path = r.path,
                       !.id = users[r.user].id,
                       !.confidence = Confidence(name, users[r.user].name)]
    ELSE [NoRet EXCEPT !.path = r.path]

\* "else: suggestions = manager.get_name_suggestions(request.name, 3)"
WithSuggestions(response, name, users) ==
    IF response.found THEN response
    ELSE [response EXCEPT !.list = GetNameSuggestions(name, 3, users)]

\* routers/notion.py: POST /users/match
MatchUserName ==
    /\ pc = "idle"
    /\ \E name \in QueryPool :
        /\ call' = [op |-> "users/match", name |-> name, limit |-> 0]
        /\ ret' = WithSuggestions(
                      MatchResponse(name,
                                    FindUserByName(name, workspace_users, user_name_mapping),
                                    workspace_users),
                      name, workspace_users)
    /\ pc' = "ret"
    /\ UNCHANGED <<env, manager, served>>

\* routers/notion_workspace_api.py: POST /notion-workspace/match-name
MatchName ==
    /\ pc = "idle"
    /\ \E name \in QueryPool :
        /\ call' = [op |-> "match-name", name |-> name, limit |-> 0]
        /\ ret' = MatchResponse(name,
                                FindUserByName(name, workspace_users, user_name_mapping),
                                workspace_users)
    /\ pc' = "ret"
    /\ UNCHANGED <<env, manager, served>>

\* How a call ended.
Outcome(raised) == IF raised THEN "raised" ELSE "returned"

\* manager.get_workspace_users() on a constructed manager
GetUsers ==
    /\ pc = "idle"
    /\ \E r \in {GetWorkspaceUsers(users_loaded, workspace_users, user_name_mapping)} :
        /\ workspace_users' = r.users
        /\ user_name_mapping' = r.mapping
        /\ loads' = loads + (IF r.attempted THEN 1 ELSE 0)
        /\ api_calls' = api_calls + (IF r.api_called THEN 1 ELSE 0)
        /\ call' = [op |-> "get_workspace_users", name |-> <<>>, limit |-> 0]
        /\ ret' = [NoRet EXCEPT !.users = r.users, !.path = Outcome(r.raised)]
    /\ pc' = "ret"
    /\ UNCHANGED <<env, users_loaded, instance, constructions>>

\* The entries of get_all_users_for_dropdown; the directory entries of the
\* model carry no email, so the default "" is displayed.
RECURSIVE DropdownOf(_)
DropdownOf(users) ==
    IF users = <<>> THEN <<>>
    ELSE <<[id |-> Head(users).id, name |-> Head(users).name, email |-> <<>>,
            display |-> Head(users).name \o <<" ", "(", ")">>]>>
         \o DropdownOf(Tail(users))

\* manager.get_all_users_for_dropdown()
Dropdown ==
    /\ pc = "idle"
    /\ \E r \in {GetWorkspaceUsers(users_loaded, workspace_users, user_name_mapping)} :
        /\ workspace_users' = r.users
        /\ user_name_mapping' = r.mapping
        /\ loads' = loads + (IF r.attempted THEN 1 ELSE 0)
        /\ api_calls' = api_calls + (IF r.api_called THEN 1 ELSE 0)
        /\ call' = [op |-> "get_all_users_for_dropdown", name |-> <<>>, limit |-> 0]
        /\ ret' = [NoRet EXCEPT !.users = IF r.raised THEN <<>> ELSE DropdownOf(r.users),
                                !.path = Outcome(r.raised)]
    /\ pc' = "ret"
    /\ UNCHANGED <<env, users_loaded, instance, constructions>>

\* The owner and created_by names of the forms.
FormNames == { <<>>, <<"D","i">>, <<"k","u","m","a","r">> }

\* A create_database_entry that loads the directory anew for every entry.
EnsureFreshUsers(loaded, users, mapping) == GetWorkspaceUsers(FALSE, <<>>, <<>>)

\* "if not self.workspace_users: self.get_workspace_users()"
EnsureUsers(loaded, users, mapping) ==
    IF users = <<>>
    THEN GetWorkspaceUsers(loaded, users, mapping)
    ELSE [users |-> users, mapping |-> mapping, raised |-> FALSE,
          attempted |-> FALSE, api_called |-> FALSE]

\* "self.get_user_id_by_name(owner_name) if owner_name else None"
PersonId(name, users, mapping) ==
    IF name = <<>> THEN "" ELSE GetUserIdByName(name, users, mapping)

\* manager.create_database_entry(form_data): the ids put into the people
\* properties "Request Owner" and "Created By" ("": a text or no property).
\* Without the API the mock page is returned; with it the page is posted,
\* and a status other than 200 raises.
CreateEntry ==
    /\ pc = "idle"
    /\ \E r \in {EnsureUsers(users_loaded, workspace_users, user_name_mapping)} :
        /\ workspace_users' = r.users
        /\ user_name_mapping' = r.mapping
        /\ loads' = loads + (IF r.attempted THEN 1 ELSE 0)
        /\ api_calls' = api_calls + (IF r.api_called THEN 1 ELSE 0)
        /\ \E ids \in {[name \in FormNames |-> PersonId(name, r.users, r.mapping)]} :
            \E owner \in FormNames, created_by \in FormNames :
                /\ call' = [op |-> "create_database_entry", name |-> owner, limit |-> 0]
                /\ \E posted \in (IF use_api THEN {"posted", "raised"} ELSE {"mock"}) :
                    ret' = [NoRet EXCEPT
                                !.id = ids[owner],
                                !.created_by = ids[created_by],
                                !.path = IF r.raised THEN "raised" ELSE posted]
    /\ pc' = "ret"
    /\ UNCHANGED <<env, users_loaded, instance, constructions>>

\* The caller takes the result; the manager is ready for the next call.
Respond ==
    /\ pc = "ret"
    /\ pc' = "idle"
    /\ call' = NoCall
    /\ ret' = NoRet
    /\ UNCHANGED <<env, manager, served>>

Next ==
    \/ NewManager
    \/ FindUser
    \/ GetUserId
    \/ Suggest
    \/ MatchUserName
    \/ MatchName
    \/ GetUsers
    \/ Dropdown
    \/ CreateEntry
    \/ Respond

Spec == Init /\ [][Next]_vars

(***************************************************************************)
(* run_extraction.py: the tool that writes notion_users.json, and a        *)
(* manager that is constructed where the file was written                  *)
(***************************************************************************)

\* The file an earlier run of the tool has written.
PreviousSnapshot == <<[id |-> "p0", name |-> <<"D","i","v","y","a">>, type |-> "person"]>>

InitExtract ==
    /\ NothingServed
    /\ files \in {OnlyFirst(Missing), OnlyFirst(ListFile(PreviousSnapshot))}
    /\ use_api = FALSE
    /\ api_status = "error"
    /\ api_results = <<>>
    /\ api_later = <<>>
    /\ users_loaded = FALSE
    /\ workspace_users = <<>>
    /\ user_name_mapping = <<>>
    /\ pc = "new"
    /\ call = NoCall
    /\ ret = NoRet
    /\ notion_token \in BOOLEAN
    /\ api_pages \in ApiPageLists
    /\ api_fail_at \in 0..Len(api_pages)
    /\ api_silent_page \in 0..(Len(api_pages) - 1)
    /\ tool_pc = "start"
    /\ all_users = <<>>
    /\ has_more = FALSE
    /\ next_cursor = 0
    /\ requests_sent = <<>>
    /\ found_before = NotFound

\* main() up to the loop: check_environment(), then the first lines of
\* fetch_users_in_batches.
StartExtraction ==
    /\ tool_pc = "start"
    /\ IF notion_token
       THEN /\ tool_pc' = "loop"
            /\ all_users' = <<>>
            /\ has_more' = TRUE
            /\ next_cursor' = 0
       ELSE /\ tool_pc' = "exit1"
            /\ UNCHANGED <<all_users, has_more, next_cursor>>
    /\ UNCHANGED <<files, use_api, api_status, api_results, served,
                   api_later, manager, pc, call, ret, found_before, notion_token, api_pages,
                   api_fail_at, api_silent_page, requests_sent>>

\* A loop that ends at a failed request and returns the pages it has.
FetchBatchKeepsPages ==
    /\ tool_pc = "loop"
    /\ has_more
    /\ Len(requests_sent) < MaxRequests
    /\ requests_sent' =
          Append(requests_sent, [start_cursor |-> next_cursor, page_size |-> PageSize])
    /\ \E r \in {Answer(Response(api_pages, api_fail_at, Len(requests_sent) + 1,
                                  next_cursor),
                         api_silent_page, next_cursor)} :
          IF r.status # 200
          THEN /\ has_more' = FALSE
               /\ UNCHANGED <<all_users, tool_pc, next_cursor>>
          ELSE /\ all_users' = all_users \o PagePersons(r.results)
               /\ has_more' = r.has_more
               /\ next_cursor' = r.next_cursor
               /\ UNCHANGED tool_pc
    /\ UNCHANGED <<files, use_api, api_status, api_results, served,
                   api_later, manager, pc, call, ret, found_before, notion_token, api_pages,
                   api_fail_at, api_silent_page>>

\* One iteration of "while has_more": a request that fails raises, and main
\* answers every exception with sys.exit(1).
FetchBatch ==
    /\ tool_pc = "loop"
    /\ has_more
    /\ Len(requests_sent) < MaxRequests
    /\ requests_sent' =
          Append(requests_sent, [start_cursor |-> next_cursor, page_size |-> PageSize])
    /\ \E r \in {Answer(Response(api_pages, api_fail_at, Len(requests_sent) + 1,
                                  next_cursor),
                         api_silent_page, next_cursor)} :
          IF r.status # 200
          THEN /\ tool_pc' = "exit1"
               /\ UNCHANGED <<all_users, has_more, next_cursor>>
          ELSE /\ all_users' = all_users \o PagePersons(r.results)
               /\ has_more' = r.has_more
               /\ next_cursor' = r.next_cursor
               /\ UNCHANGED tool_pc
    /\ UNCHANGED <<files, use_api, api_status, api_results, served,
                   api_later, manager, pc, call, ret, found_before, notion_token, api_pages,
                   api_fail_at, api_silent_page>>

\* The loop has ended: main() exits with 1 on an empty list and else writes
\* the list to notion_users.json.
FinishExtraction ==
    /\ tool_pc = "loop"
    /\ ~has_more
    /\ IF all_users = <<>>
       THEN /\ tool_pc' = "exit1"
            /\ UNCHANGED files
       ELSE /\ tool_pc' = "saved"
            /\ files' = [files EXCEPT ![1] = ListFile(all_users)]
    /\ UNCHANGED <<served, use_api, api_status, api_results, api_later, manager, pc, call, ret,
                   found_before, notion_token, api_pages, api_fail_at, api_silent_page,
                   all_users, has_more,
                   next_cursor, requests_sent>>

\* A manager is constructed in the directory of the written file.
LoadSnapshot ==
    /\ tool_pc = "saved"
    /\ NewManager

NextExtract ==
    \/ StartExtraction
    \/ FetchBatch
    \/ FinishExtraction
    \/ LoadSnapshot

SpecExtract == InitExtract /\ [][NextExtract]_vars

(***************************************************************************)
(* Repeated runs of find_user_by_name on one manager                       *)
(***************************************************************************)

\* The names of the directories on which runs are repeated, and the queries
\* whose runs are kept for comparison.
RepeatNames == { DineshKumar, DivyaKumar, <<"a","b">>, <<"A","b"," ","c","d">> }
RepeatDirectories ==
    UNION { { [i \in 1..n |-> [id |-> IdOf[i], name |-> names[i], type |-> "person"]] :
                names \in [1..n -> RepeatNames] } : n \in 0..MaxMembers }
WatchPool ==
    { <<"D","i">>, <<"a">>, <<"a","b"," ","k","k">>, <<"D","i","n","e","s">>, <<"k","d">> }

InitRepeat ==
    /\ ToolOff
    /\ NothingServed
    /\ files \in {OnlyFirst(ListFile(users)) : users \in RepeatDirectories}
    /\ use_api = TRUE
    /\ api_status = "error"
    /\ api_results = <<>>
    /\ api_later = <<>>
    /\ users_loaded = FALSE
    /\ workspace_users = <<>>
    /\ user_name_mapping = <<>>
    /\ pc = "new"
    /\ call = NoCall
    /\ ret = NoRet

\* What is kept of a run for name that returned position user: a run of the
\* kept query marks the kept run as repeated; while nothing is kept, a run
\* of a watched query is kept or not.
Keep(kept, name, user) ==
    IF kept.set
    THEN (IF kept.name = name THEN {[kept EXCEPT !.again = TRUE]} ELSE {kept})
    ELSE (IF name \in WatchPool
          THEN {kept, [set |-> TRUE, name |-> name, user |-> user, again |-> FALSE]}
          ELSE {kept})

\* manager.find_user_by_name(name), with the run kept for comparison.
FindUserRecorded ==
    /\ pc = "idle"
    /\ \E name \in QueryPool :
        \E r \in {FindUserByName(name, workspace_users, user_name_mapping)} :
            /\ call' = [op |-> "find_user_by_name", name |-> name, limit |-> 0]
            /\ ret' = [NoRet EXCEPT !.user = r.user, !.path = r.path, !.score = r.score,
                                    !.id = IdOfFound(r, workspace_users)]
            /\ found_before' \in Keep(found_before, name, r.user)
    /\ pc' = "ret"
    /\ UNCHANGED <<files, use_api, api_status, api_results, api_later, tool, manager,
                   served>>

NextRepeat ==
    \/ NewManager
    \/ FindUserRecorded
    \/ GetUserId
    \/ Suggest
    \/ MatchUserName
    \/ MatchName
    \/ Respond

SpecRepeat == InitRepeat /\ [][NextRepeat]_vars

(***************************************************************************)
(* The load of a manager over the candidate paths and the API              *)
(***************************************************************************)

\* What a candidate path may hold.
FileCases ==
    { Missing, Invalid, ListFile(<<>>),
      ListFile(<<[id |-> "u1", name |-> <<"a","b">>, type |-> "person"]>>),
      ListFile(<<[id |-> "u1", name |-> <<"a"," ","b">>, type |-> "person"],
                 [id |-> "u2", name |-> DivyaKumar, type |-> "person"]>>) }

InitLoad ==
    /\ ToolOff
    /\ NothingServed
    /\ files \in [1..PossiblePaths -> FileCases]
    /\ \/ use_api = FALSE /\ api_status = "error" /\ api_results = <<>>
       \/ use_api = TRUE /\ api_status = "error" /\ api_results = <<>>
       \/ /\ use_api = TRUE /\ api_status = "ok"
          /\ api_results = << [id |-> "p1", name |-> <<"a","b">>, object |-> "user",
                               type |-> "person"],
                              [id |-> "b1", name |-> <<"a","b">>, object |-> "user",
                               type |-> "bot"] >>
    /\ api_later = <<>>
    /\ users_loaded = FALSE
    /\ workspace_users = <<>>
    /\ user_name_mapping = <<>>
    /\ pc = "new"
    /\ call = NoCall
    /\ ret = NoRet

NextLoad ==
    \/ NewManager
    \/ GetUsers
    \/ Dropdown
    \/ Respond

SpecLoad == InitLoad /\ [][NextLoad]_vars

(***************************************************************************)
(* A manager whose sources appear late: the snapshot file is written, or   *)
(* the API comes back, at any time before or after the construction        *)
(***************************************************************************)

\* The lists a late notion_users.json holds.
LateSnapshots ==
    { <<[id |-> "u1", name |-> <<"a","b">>, type |-> "person"]>>,
      <<[id |-> "u1", name |-> DineshKumar, type |-> "person"],
        [id |-> "u2", name |-> DivyaKumar, type |-> "person"]>> }

\* A notion_users.json on which the constructor raises: a null name.
UnloadableSnapshot == <<[id |-> "u9", name |-> Null, type |-> "person"]>>

InitLate ==
    /\ ToolOff
    /\ NothingServed
    /\ files \in {OnlyFirst(Missing), OnlyFirst(ListFile(UnloadableSnapshot))}
    /\ use_api \in BOOLEAN
    /\ api_status = "error"
    /\ api_results = << [id |-> "p1", name |-> <<"a","b">>, object |-> "user",
                         type |-> "person"] >>
    /\ api_later = <<>>
    /\ users_loaded = FALSE
    /\ workspace_users = <<>>
    /\ user_name_mapping = <<>>
    /\ pc = "new"
    /\ call = NoCall
    /\ ret = NoRet

\* save_users_to_json of the extraction tool writes notion_users.json, where
\* there was none or over the one that was there.
SnapshotAppears ==
    /\ files[1] \notin {ListFile(users) : users \in LateSnapshots}
    /\ \E users \in LateSnapshots : files' = OnlyFirst(ListFile(users))
    /\ UNCHANGED <<use_api, api_status, api_results, api_later, tool, found_before,
                   manager, served, pc, call, ret>>

\* GET /v1/users answers with status 200 from now on.
ApiRecovers ==
    /\ use_api
    /\ api_status = "error"
    /\ api_status' = "ok"
    /\ UNCHANGED <<files, use_api, api_results, api_later, tool, found_before,
                   manager, served, pc, call, ret>>

NextLate ==
    \/ NewManager
    \/ SnapshotAppears
    \/ ApiRecovers
    \/ FindUser
    \/ GetUserId
    \/ Suggest
    \/ MatchUserName
    \/ MatchName
    \/ GetUsers
    \/ Dropdown
    \/ CreateEntry
    \/ Respond

SpecLate == InitLate /\ [][NextLate]_vars

(***************************************************************************)
(* Properties                                                              *)
(***************************************************************************)

Returned(op) == pc = "ret" /\ call.op = op
Resolved == Returned("find_user_by_name") \/ Returned("get_user_id_by_name")

\* Does a directory entry with this name register the key in the index?
RegistersParts(name, parts, key) ==
    /\ name # <<>>
    /\ \/ key = Lower(name)
       \/ \E i \in 1..Len(parts) : key = Lower(parts[i])
       \/ /\ Len(parts) >= 2
          /\ \/ key = Lower(parts[1]) \o <<" ">> \o Lower(parts[Len(parts)])
             \/ key = Initials(parts)
Registers(raw_name, key) == RegistersParts(Strip(raw_name), Split(Strip(raw_name)), key)

\* The positions of the entries that register the key, and the last of them.
Registrants(users, key) == {i \in 1..Len(users) : Registers(users[i].name, key)}
LastRegistrantId(users, key) == users[MaxOf(Registrants(users, key))].id

Named(users) == {i \in 1..Len(users) : Strip(users[i].name) # <<>>}
NameTokens(user) == Split(Strip(user.name))
IsExample(users) ==
    Len(users) = 2 /\ users[1].name = DineshKumar /\ users[2].name = DivyaKumar
       /\ users[1].id = "u1" /\ users[2].id = "u2"

\* C1 (as claimed): for every directory and every member m with a non-empty
\* trimmed name, get_user_id_by_name(m.name) returns m.id.
C1_FullNameReturnsOwnId ==
    Returned("get_user_id_by_name") =>
        \A i \in Named(workspace_users) :
            call.name = workspace_users[i].name => ret.id = workspace_users[i].id

\* C1 (amended): for every directory and every member m with a non-empty
\* trimmed name, get_user_id_by_name(m.name) returns the id of the last member
\* in directory order that registered the key lower(trim(m.name)); that is
\* m.id whenever no later member registers that key.
C1_FullNameReturnsLastRegistrant ==
    Returned("get_user_id_by_name") =>
        \A i \in Named(workspace_users) :
            call.name = workspace_users[i].name =>
                /\ ret.id = LastRegistrantId(workspace_users, Lower(Strip(call.name)))
                /\ (\A j \in (i + 1)..Len(workspace_users) :
                        ~Registers(workspace_users[j].name, Lower(Strip(call.name))))
                   => ret.id = workspace_users[i].id

\* A later member took over the full-name key of an earlier one, and the
\* earlier member's full name was resolved.
C1_Witness ==
    /\ Returned("get_user_id_by_name")
    /\ \E i \in Named(workspace_users) :
        /\ call.name = workspace_users[i].name
        /\ ret.id # workspace_users[i].id
        /\ ret.id = LastRegistrantId(workspace_users, Lower(Strip(call.name)))

\* C2: for every member m with at least two name tokens, resolving m's first
\* token and resolving m's last token each return the id of the last member
\* in directory order that registered that key in the index.
C2_TokenReturnsLastRegistrant ==
    Resolved =>
        \A i \in Named(workspace_users) :
            (/\ Len(NameTokens(workspace_users[i])) >= 2
             /\ \/ call.name = NameTokens(workspace_users[i])[1]
                \/ call.name = NameTokens(workspace_users[i])
                                   [Len(NameTokens(workspace_users[i]))])
            => ret.id = LastRegistrantId(workspace_users, Lower(call.name))

\* The last token of a two-token member was resolved, and the key had been
\* registered by an earlier member as well (as another kind of key).
C2_Witness ==
    /\ Returned("get_user_id_by_name")
    /\ \E i \in Named(workspace_users) :
        /\ Len(NameTokens(workspace_users[i])) >= 2
        /\ call.name = NameTokens(workspace_users[i])[Len(NameTokens(workspace_users[i]))]
        /\ call.name # NameTokens(workspace_users[i])[1]
        /\ Cardinality(Registrants(workspace_users, Lower(call.name))) >= 2
        /\ ret.id = workspace_users[i].id

\* C3: resolving the empty string never returns a member or an id.
C3_EmptyQueryNoMatch ==
    (Resolved /\ call.name = <<>>) => (ret.user = 0 /\ ret.id = "")

\* The empty string was looked up in a directory that has named members.
C3_Witness ==
    /\ Returned("find_user_by_name")
    /\ call.name = <<>>
    /\ Named(workspace_users) # {}
    /\ ret.path = "invalid"

\* C4: a whitespace-only query is treated like the empty query:
\* find_user_by_name returns no member and get_name_suggestions returns no
\* suggestion for it.
C4_WhitespaceQueryNoMatch ==
    (pc = "ret" /\ call.name # <<>> /\ Strip(call.name) = <<>>) =>
        /\ call.op = "find_user_by_name" => ret.user = 0
        /\ call.op = "get_name_suggestions" => ret.list = <<>>

\* C5: a match found through the exact index is reported by the match
\* endpoints with confidence 1.0.
C5_ExactHitConfidenceOne ==
    ((Returned("users/match") \/ Returned("match-name")) /\ ret.path = "exact" /\ ret.found)
        => ScoreEQ(ret.confidence, Frac(1, 1))

SuggestedUsers == [i \in 1..Len(ret.list) |-> ret.list[i].user]
SuggestedDi(limit) ==
    /\ Returned("get_name_suggestions")
    /\ IsExample(workspace_users)
    /\ call.name = <<"D","i">>
    /\ call.limit = limit

\* C6 (as claimed): for D = [u1 "Dinesh Kumar", u2 "Divya Kumar"],
\* suggest("Di", 5) returns both members in the order u1 then u2.
C6_DiSuggestsU1ThenU2 == SuggestedDi(DefaultLimit) => SuggestedUsers = <<1, 2>>

\* C6 (amended): for D = [u1 "Dinesh Kumar", u2 "Divya Kumar"],
\* suggest("Di", 5) returns both members in the order u2 then u1: both get
\* the bonuses 0.8 + 0.6 + 0.9, and the shorter name "Divya Kumar" has the
\* larger similarity term (4/13 against 4/14).
C6_DiSuggestsU2ThenU1 ==
    SuggestedDi(DefaultLimit) =>
        /\ SuggestedUsers = <<2, 1>>
        /\ ScoreGT(ret.list[1].score, ret.list[2].score)

C6_Witness == SuggestedDi(DefaultLimit) /\ Len(ret.list) = 2

\* C7: for D = [u1 "Dinesh Kumar", u2 "Divya Kumar"], resolving "Dinesh"
\* returns u1 by an exact index hit, resolving "Dines" misses the index and
\* returns u1 through the fuzzy path, and resolving "Kumar" returns u2.
C7_ExampleResolves ==
    (Resolved /\ IsExample(workspace_users)) =>
        /\ call.name = <<"D","i","n","e","s","h">> =>
              (ret.id = "u1" /\ (call.op = "find_user_by_name" => ret.path = "exact"))
        /\ call.name = <<"D","i","n","e","s">> =>
              (ret.id = "u1" /\ (call.op = "find_user_by_name" => ret.path = "fuzzy"))
        /\ call.name = <<"K","u","m","a","r">> =>
              (ret.id = "u2" /\ (call.op = "find_user_by_name" => ret.path = "exact"))

\* The typo "Dines" was resolved on the example directory through the fuzzy path.
C7_Witness ==
    /\ Returned("find_user_by_name")
    /\ IsExample(workspace_users)
    /\ call.name = <<"D","i","n","e","s">>
    /\ ret.path = "fuzzy"
    /\ ret.user = 1

SortedByScore(list) ==
    \A i \in 1..Len(list) : \A j \in (i + 1)..Len(list) :
        ScoreGE(list[i].score, list[j].score)

\* C8: for every partial query and every integer limit, the suggestion list
\* is sorted in non-increasing score order and has length at most limit; with
\* limit 0 it is the empty list.  (No list is shorter than the empty list:
\* for a negative limit "at most limit" is read as "empty".)
C8_SortedAndWithinLimit ==
    Returned("get_name_suggestions") =>
        /\ SortedByScore(ret.list)
        /\ Len(ret.list) <= call.limit \/ (call.limit < 0 /\ ret.list = <<>>)
        /\ call.limit = 0 => ret.list = <<>>

\* C9: in the suggestion list, two members with equal total score appear in
\* their original directory order.
C9_TiesKeepDirectoryOrder ==
    Returned("get_name_suggestions") =>
        \A i \in 1..Len(ret.list) : \A j \in (i + 1)..Len(ret.list) :
            ScoreEQ(ret.list[i].score, ret.list[j].score)
                => ret.list[i].user < ret.list[j].user

\* A suggestion list that holds two members with equal scores.
C9_Witness ==
    /\ Returned("get_name_suggestions")
    /\ \E i \in 1..Len(ret.list) : \E j \in (i + 1)..Len(ret.list) :
        ScoreEQ(ret.list[i].score, ret.list[j].score)

\* The fuzzy score of the member at position i for the query of the call.
ScoreAt(i) == FuzzyScore(Lower(Strip(call.name)), Strip(workspace_users[i].name))

\* C10: on the fuzzy path the matcher returns a member only if that member's
\* score is at least 0.6, and otherwise returns no match; the returned member
\* has the highest score of all members, and among members sharing the top
\* score it is the one that comes first in directory order.
C10_FuzzyReturnsFirstBest ==
    (Returned("find_user_by_name") /\ ret.path = "fuzzy") =>
        /\ ret.user # 0 =>
              /\ ret.user \in Named(workspace_users)
              /\ ScoreGE(ScoreAt(ret.user), Frac(60, 100))
              /\ \A j \in Named(workspace_users) : ScoreGE(ScoreAt(ret.user), ScoreAt(j))
              /\ \A j \in Named(workspace_users) :
                    j < ret.user => ScoreGT(ScoreAt(ret.user), ScoreAt(j))
        /\ ret.user = 0 =>
              \A j \in Named(workspace_users) : ~ScoreGE(ScoreAt(j), Frac(60, 100))

\* The fuzzy path returned the first of two members that share the top score.
C10_Witness ==
    /\ Returned("find_user_by_name")
    /\ ret.path = "fuzzy"
    /\ ret.user # 0
    /\ \E j \in Named(workspace_users) :
          j > ret.user /\ ScoreEQ(ScoreAt(j), ScoreAt(ret.user))

\* The fuzzy path rejected a candidate: a member scored at least 0.5 but no
\* member reached 0.6.
C10_WitnessRejected ==
    /\ Returned("find_user_by_name")
    /\ ret.path = "fuzzy"
    /\ ret.user = 0
    /\ \E j \in Named(workspace_users) : ScoreGE(ScoreAt(j), Frac(50, 100))

\* The terms the claims give for the matcher's score of one member, for a
\* normalized query q, the member's normalized name lname and its tokens.
MatcherTerms(q, lname, tokens) ==
    {Ratio(q, lname)}
    \cup (IF Contains(lname, q) \/ Contains(q, lname) THEN {Frac(8, 10)} ELSE {})
    \cup (IF tokens # <<>> /\ q = Lower(tokens[1]) THEN {Frac(95, 100)} ELSE {})
    \cup (IF Len(tokens) >= 2 /\ q = Lower(tokens[Len(tokens)]) THEN {Frac(9, 10)} ELSE {})
    \cup (IF \E i \in 2..(Len(tokens) - 1) : q = Lower(tokens[i])
          THEN {Frac(85, 100)} ELSE {})
    \cup (IF q = Initials(tokens) THEN {Frac(9, 10)} ELSE {})
Greatest(terms) == CHOOSE x \in terms : \A y \in terms : ScoreGE(x, y)
ClaimedScore(i) ==
    Greatest(MatcherTerms(Lower(Strip(call.name)), Lower(Strip(workspace_users[i].name)),
                          NameTokens(workspace_users[i])))

\* C11: on the fuzzy path the score of every member with a non-empty name is
\* the maximum of the similarity ratio, 0.8 for containment either way, 0.95
\* for the first token, 0.9 for the last token of two or more, 0.85 for an
\* interior token and 0.9 for the initials; nothing else contributes, nothing
\* is summed, and the score the matcher decides on is the returned member's.
C11_ScoreIsMaxOfTerms ==
    (Returned("find_user_by_name") /\ ret.path = "fuzzy") =>
        /\ \A j \in Named(workspace_users) : ScoreEQ(ScoreAt(j), ClaimedScore(j))
        /\ ret.user # 0 => ScoreEQ(ret.score, ClaimedScore(ret.user))

\* A fuzzy match decided by the initials term: 0.9, above the containment
\* term and above the ratio, which both apply too.
C11_Witness ==
    /\ Returned("find_user_by_name") /\ ret.path = "fuzzy" /\ ret.user # 0
    /\ ScoreEQ(ret.score, Frac(9, 10))
    /\ Lower(Strip(call.name)) = Initials(NameTokens(workspace_users[ret.user]))
    /\ Contains(Lower(Strip(workspace_users[ret.user].name)), Lower(Strip(call.name)))
    /\ ~ScoreGE(Ratio(Lower(Strip(call.name)), Lower(Strip(workspace_users[ret.user].name))),
                Frac(8, 10))

\* The sum the claims give for the ranker's score of one member, for a
\* normalized partial name q, the member's normalized name and its tokens.
Weight(applies, tenths) == IF applies THEN Frac(tenths, 10) ELSE Frac(0, 1)
Half(x) == Frac(x.n, 2 * x.d)
RankerSum(q, lname, tokens) ==
    SumScores(<< Weight(StartsWith(lname, q), 8),
                 Weight(Contains(lname, q), 6),
                 Weight(tokens # <<>> /\ StartsWith(Lower(tokens[1]), q), 9),
                 Weight(Len(tokens) >= 2 /\ StartsWith(Lower(tokens[Len(tokens)]), q), 7),
                 Half(Ratio(q, lname)) >>)
SuggestedSet == {ret.list[i].user : i \in 1..Len(ret.list)}
ClaimedSum(i) ==
    RankerSum(Lower(Strip(call.name)), Lower(Strip(workspace_users[i].name)),
              NameTokens(workspace_users[i]))

\* C12: for a non-empty partial name and a limit that cuts nothing off, the
\* suggested members are exactly the members with a non-empty name whose sum
\* of +0.8 (name starts with the partial), +0.6 (name contains it), +0.9
\* (first token starts with it), +0.7 (last token of two or more starts with
\* it) and half the similarity ratio is strictly greater than 0.3, and every
\* suggestion carries that sum as its score.
C12_ScoreIsSumAboveThreshold ==
    (Returned("get_name_suggestions") /\ call.name # <<>>
        /\ call.limit >= Len(workspace_users)) =>
        /\ SuggestedSet =
              {j \in Named(workspace_users) : ScoreGT(ClaimedSum(j), Frac(3, 10))}
        /\ \A i \in 1..Len(ret.list) :
              ScoreEQ(ret.list[i].score, ClaimedSum(ret.list[i].user))

\* A suggestion list with a member that collects three bonuses, beside a
\* member with a name that stays out.
C12_Witness ==
    /\ Returned("get_name_suggestions") /\ call.name # <<>>
    /\ call.limit >= Len(workspace_users)
    /\ \E i \in 1..Len(ret.list) : ScoreGT(ret.list[i].score, Frac(23, 10))
    /\ \E j \in Named(workspace_users) : j \notin SuggestedSet

\* A member whose sum is exactly 0.3 (no bonus, ratio 0.6) stays out.
C12_WitnessThreshold ==
    /\ Returned("get_name_suggestions") /\ call.name # <<>>
    /\ call.limit >= Len(workspace_users)
    /\ \E j \in Named(workspace_users) :
          ScoreEQ(ClaimedSum(j), Frac(3, 10)) /\ j \notin SuggestedSet

\* A manager exists and can be queried; Built: it waits for the next call.
Serving == pc \in {"idle", "ret"}
Built == pc = "idle"
InitialsOf(i) == Initials(NameTokens(workspace_users[i]))

\* C13 (as claimed): once the index is built it holds the initials key of every member with
\* at least one name token, single-token names included.
C13_InitialsKeyForEveryNamed ==
    Built =>
        \A j \in Named(workspace_users) : InitialsOf(j) \in DOMAIN user_name_mapping

\* C13 (amended): once the index is built it holds the initials key of every member with at
\* least two name tokens; a single-token member adds no initials key, so its
\* initial is a key only where some entry registers it as a full name, as a
\* token, as a "first last" key or as the initials of two or more tokens.
C13_InitialsKeyFromTwoTokens ==
    Built =>
        \A j \in Named(workspace_users) :
            /\ Len(NameTokens(workspace_users[j])) >= 2
                  => /\ InitialsOf(j) \in DOMAIN user_name_mapping
                     /\ user_name_mapping[InitialsOf(j)]
                            = LastRegistrantId(workspace_users, InitialsOf(j))
            /\ Len(NameTokens(workspace_users[j])) = 1
                  => (InitialsOf(j) \in DOMAIN user_name_mapping
                         <=> Registrants(workspace_users, InitialsOf(j)) # {})

\* A directory with a single-token member whose initial is no key, beside a
\* member of two tokens whose initials are one.
C13_Witness ==
    /\ Built
    /\ \E j \in Named(workspace_users) :
          /\ Len(NameTokens(workspace_users[j])) = 1
          /\ InitialsOf(j) \notin DOMAIN user_name_mapping
    /\ \E j \in Named(workspace_users) :
          /\ Len(NameTokens(workspace_users[j])) >= 2
          /\ InitialsOf(j) \in DOMAIN user_name_mapping

NoDuplicateIds(users) ==
    \A i \in 1..Len(users) : \A j \in (i + 1)..Len(users) : users[i].id # users[j].id

\* C14: whatever the source of the directory, every entry of the loaded
\* directory is of type person, every index value is the id of a person, and
\* every matched or suggested entry is a person.
C14_OnlyPersonsLoaded ==
    Serving =>
        /\ \A i \in 1..Len(workspace_users) : workspace_users[i].type = "person"
        /\ \A k \in DOMAIN user_name_mapping :
              \A i \in 1..Len(workspace_users) :
                  workspace_users[i].id = user_name_mapping[k]
                      => workspace_users[i].type = "person"
        /\ ret.user # 0 => workspace_users[ret.user].type = "person"
        /\ \A i \in 1..Len(ret.list) : workspace_users[ret.list[i].user].type = "person"

\* C15: the loaded directory never holds two entries with the same id, also
\* when the API delivers an id twice to the extraction tool whose file the
\* manager loads.
C15_NoDuplicateIds == Serving => NoDuplicateIds(workspace_users)

\* The entries of all pages of the API the manager asks, in order.
RECURSIVE Flatten(_)
Flatten(pages) == IF pages = <<>> THEN <<>> ELSE Head(pages) \o Flatten(Tail(pages))
LoadedFromApi == Serving /\ ~has_local_file /\ use_api /\ api_status = "ok"

\* C16: a directory loaded from the API holds the person entries of every
\* page, the pages behind the cursor of the first response included (stated
\* for listings without a null name).
C16_LoadsEveryPage ==
    (LoadedFromApi /\ ~Raises(PersonUsers(api_results))) =>
        workspace_users = PersonUsers(api_results \o Flatten(api_later))

\* The extraction tool, for comparison, returns the person entries of every
\* page once the loop has ended.
C16_ToolLoadsEveryPage ==
    (tool_pc = "loop" /\ ~has_more /\ api_fail_at = 0) =>
        all_users = PersonUsers(Flatten(api_pages))

\* No directory can be obtained: no snapshot file loads, and the API is not
\* configured or its request fails.
NoSource == ~has_local_file /\ (~use_api \/ api_status = "error")

\* C17: when no directory can be obtained, constructing the manager fails
\* with an error the caller sees; no manager with an empty directory results.
C17_NoSourceFails == (pc # "new" /\ tool_pc = "off" /\ NoSource) => pc = "failed"

\* C18: whenever a query can run, the index is the one built from the
\* current list: every key is registered by an entry of the list and maps to
\* the id of the last entry registering it, and every named entry of the
\* list has its full-name key.
C18_IndexBuiltFromList ==
    Serving =>
        /\ \A k \in DOMAIN user_name_mapping :
              /\ Registrants(workspace_users, k) # {}
              /\ user_name_mapping[k] = LastRegistrantId(workspace_users, k)
        /\ \A j \in Named(workspace_users) :
              Lower(Strip(workspace_users[j].name)) \in DOMAIN user_name_mapping

\* A load attempt that obtains no directory: no source, or a listing that
\* makes the index builder raise inside the API branch.
LoadFails ==
    /\ pc = "new" /\ pc' # "new" /\ tool_pc = "off"
    /\ \/ NoSource
       \/ ~has_local_file /\ use_api /\ api_status = "ok"
             /\ Raises(PersonUsers(api_results))

\* C19: a load attempt that fails leaves the in-memory directory list and
\* the name index as they were before the attempt.
C19_FailedLoadChangesNothing ==
    [][LoadFails => UNCHANGED <<users_loaded, workspace_users, user_name_mapping>>]_vars

\* The entries the manager reads from its source.
SourceEntries ==
    IF has_local_file THEN local_users
    ELSE IF use_api /\ api_status = "ok" THEN PersonUsers(api_results)
    ELSE <<>>

\* C20: an entry with an empty, blank, missing or null name never makes the
\* load raise or fail: it is skipped, and every entry with a name is in the
\* directory and has its full-name key in the index.
C20_NamelessEntriesAreSkipped ==
    (pc # "new" /\ tool_pc = "off") =>
        /\ pc # "failed"
        /\ \A i \in 1..Len(SourceEntries) :
              (SourceEntries[i].name # Null /\ Strip(SourceEntries[i].name) # <<>>)
                  => /\ \E j \in 1..Len(workspace_users) :
                            workspace_users[j] = SourceEntries[i]
                     /\ Lower(Strip(SourceEntries[i].name)) \in DOMAIN user_name_mapping

\* C21: a run of find_user_by_name returns the member that an earlier run
\* with the same query returned on this manager, whatever was called in
\* between.
C21_SameQuerySameMember ==
    (Returned("find_user_by_name") /\ found_before.set /\ found_before.name = call.name)
        => ret.user = found_before.user

\* A repeated run on the fuzzy path that returns a member while another
\* member of the directory has a name too.
C21_Witness ==
    /\ Returned("find_user_by_name") /\ found_before.again
    /\ found_before.name = call.name
    /\ ret.path = "fuzzy" /\ ret.user # 0
    /\ \E j \in Named(workspace_users) : j # ret.user

\* C22: once a manager is constructed, no step changes its directory list or
\* its name index, and none runs the load again: find_user_by_name,
\* get_user_id_by_name, get_name_suggestions, get_all_users_for_dropdown,
\* get_workspace_users, create_database_entry and the two match endpoints
\* leave them as they are, also when the snapshot file is written or the API
\* comes back after the construction.
C22_LoadedDirectoryIsFrozen ==
    [][Serving => UNCHANGED <<users_loaded, workspace_users, user_name_mapping,
                              loads, api_calls>>]_vars

\* An entry was created on a loaded directory, its owner resolved to a member.
C22_Witness ==
    /\ Returned("create_database_entry")
    /\ workspace_users # <<>>
    /\ user_name_mapping # <<>>
    /\ ret.id # ""
    /\ loads = 1

\* A request of the run got a status other than 200, or requests.get raised.
FailedRequest == api_fail_at \in 1..Len(requests_sent)

\* C23: the extraction tool fails closed.  A run in which a page request
\* failed, or which extracted no users, ends in sys.exit(1) and never writes
\* notion_users.json: the file written before stays as it was.  The file is
\* written in one step only, after the loop has ended without a failed
\* request, and with the whole non-empty list.
C23_ToolFailsClosed ==
    [][/\ (FailedRequest' \/ tool_pc' = "exit1") => files' = files
       /\ FailedRequest' => tool_pc' = "exit1"
       /\ (tool_pc = "loop" /\ ~has_more /\ all_users = <<>>) => tool_pc' = "exit1"
       /\ files' # files =>
            /\ tool_pc = "loop" /\ tool_pc' = "saved"
            /\ ~has_more /\ ~FailedRequest
            /\ all_users # <<>>
            /\ files' = OnlyFirst(ListFile(all_users))]_vars

\* The second request failed after a page with a person was fetched: the run
\* has exited and the file of the earlier run is in place.
C23_Witness ==
    /\ tool_pc = "exit1"
    /\ FailedRequest
    /\ all_users # <<>>
    /\ files = OnlyFirst(ListFile(PreviousSnapshot))

\* C24: the fetch loop requests each page at most once and ends: no request
\* after the first goes without start_cursor, no two requests ask for the
\* same page, and a run sends no more requests than the API holds pages,
\* whatever the provider answers.
C24_EachPageRequestedOnce ==
    /\ \A i \in 2..Len(requests_sent) : requests_sent[i].start_cursor # 0
    /\ \A i, j \in 1..Len(requests_sent) :
          i # j => PageOf(requests_sent[i].start_cursor) # PageOf(requests_sent[j].start_cursor)
    /\ Len(requests_sent) <= Len(api_pages)

\* What holds of the loop for every provider: each request carries the cursor
\* of the response before it when there was one, and the loop ends with the
\* first response whose has_more is false.
C24_SendsPreviousCursor ==
    [][/\ requests_sent' # requests_sent =>
            requests_sent'[Len(requests_sent')].start_cursor = next_cursor
       /\ (tool_pc = "loop" /\ ~has_more) => requests_sent' = requests_sent]_vars

\* The run was stopped in the loop after MaxRequests requests for the first
\* page, has_more still true.
C24_LoopsOnFirstPage ==
    /\ tool_pc = "loop" /\ has_more
    /\ Len(requests_sent) = MaxRequests
    /\ \A i \in 1..Len(requests_sent) : requests_sent[i].start_cursor = 0

\* Does one of the candidate paths open and parse?
SomePathLoads == \E i \in 1..PossiblePaths : files[i].kind = "list"

C25_WitnessApi ==
    /\ Serving
    /\ ~SomePathLoads
    /\ \E i \in 1..PossiblePaths : files[i].kind = "invalid"
    /\ api_calls = 1
    /\ workspace_users # <<>>

\* C26: a fuzzy-path match reported by a match endpoint with found = true
\* carries a confidence_score of at least 0.6, the acceptance threshold of
\* the matcher, and the score lies in [0, 1].
C26_FuzzyConfidenceAtLeastThreshold ==
    ((Returned("users/match") \/ Returned("match-name")) /\ ret.found /\ ret.path = "fuzzy")
        => /\ ScoreGE(ret.confidence, Frac(3, 5))
           /\ ScoreGE(ret.confidence, Frac(0, 1))
           /\ ScoreGE(Frac(1, 1), ret.confidence)

\* What holds of the reported confidence of every match: it lies in [0, 1].
C26_ConfidenceInUnitInterval ==
    ((Returned("users/match") \/ Returned("match-name")) /\ ret.found)
        => /\ ScoreGE(ret.confidence, Frac(0, 1))
           /\ ScoreGE(Frac(1, 1), ret.confidence)

\* C27: when find_user_by_name reaches the fuzzy path, the normalized query
\* equals no token - first, last or interior - of any member with a non-empty
\* name, so the token terms 0.95, 0.9 and 0.85 never apply there; it equals
\* the initials of a member only if that member's name is a single token.
C27_FuzzyPathHasNoTokenHit ==
    (Returned("find_user_by_name") /\ ret.path = "fuzzy") =>
        \A j \in Named(workspace_users) :
            /\ \A i \in 1..Len(NameTokens(workspace_users[j])) :
                  Lower(NameTokens(workspace_users[j])[i]) # Lower(Strip(call.name))
            /\ Lower(Strip(call.name)) = InitialsOf(j) =>
                  Len(NameTokens(workspace_users[j])) = 1

\* The fuzzy path returned a single-token member for its initial, while the
\* directory holds a member of several tokens too.
C27_Witness ==
    /\ Returned("find_user_by_name") /\ ret.path = "fuzzy" /\ ret.user # 0
    /\ Len(NameTokens(workspace_users[ret.user])) = 1
    /\ Lower(Strip(call.name)) = InitialsOf(ret.user)
    /\ \E j \in Named(workspace_users) : Len(NameTokens(workspace_users[j])) >= 2

\* The normalized query of the call is contained in the normalized name of
\* the member at position j, or contains it.
ContainedEitherWay(j) ==
    \/ Contains(Lower(Strip(workspace_users[j].name)), Lower(Strip(call.name)))
    \/ Contains(Lower(Strip(call.name)), Lower(Strip(workspace_users[j].name)))

\* C28: when the query misses the exact index and its normalized form is a
\* substring of the name of some member with a non-empty name, or contains
\* such a name, find_user_by_name returns a member and not None, and the
\* score of the returned member is at least 0.8.
C28_ContainmentAlwaysMatches ==
    (/\ Returned("find_user_by_name") /\ ret.path = "fuzzy"
     /\ \E j \in Named(workspace_users) : ContainedEitherWay(j))
        => /\ ret.user \in Named(workspace_users)
           /\ ret.id = workspace_users[ret.user].id
           /\ ScoreGE(ret.score, Frac(8, 10))

\* A query that contains a member's name and more was resolved to that
\* member with exactly 0.8: nothing but the containment term reached it.
C28_Witness ==
    /\ Returned("find_user_by_name") /\ ret.path = "fuzzy" /\ ret.user # 0
    /\ ContainedEitherWay(ret.user)
    /\ Len(Lower(Strip(call.name))) > Len(Lower(Strip(workspace_users[ret.user].name)))
    /\ ScoreEQ(ret.score, Frac(8, 10))

\* The calls that resolve a name to an id, and those that return the list.
ResolvingOps == {"find_user_by_name", "get_user_id_by_name", "create_database_entry"}
ListingOps == {"get_workspace_users", "get_all_users_for_dropdown"}

\* C29: a construction with no local snapshot and with the API failing or
\* not configured yields a manager with the empty list; and a manager whose
\* list is empty keeps it empty for its lifetime, also when a snapshot file
\* or the API appears later: no get_workspace_users, create_database_entry
\* or query call runs the load again, every resolve returns no id, every
\* suggest returns the empty list.
C29_EmptyDirectoryStaysEmpty ==
    [][/\ (pc = "new" /\ pc' # "new" /\ NoSource) =>
            (pc' = "idle" /\ users_loaded' /\ workspace_users' = <<>>)
       /\ (Serving /\ workspace_users = <<>>) =>
            /\ pc' \in {"idle", "ret"}
            /\ workspace_users' = <<>>
            /\ loads' = loads /\ api_calls' = api_calls /\ constructions' = constructions
            /\ (pc' = "ret" /\ call'.op \in ResolvingOps) =>
                  (ret'.id = "" /\ ret'.user = 0 /\ ret'.created_by = "")
            /\ (pc' = "ret" /\ call'.op = "get_name_suggestions") => ret'.list = <<>>
            /\ (pc' = "ret" /\ call'.op \in ListingOps) => ret'.users = <<>>]_vars

\* The manager was constructed without a source; the snapshot file has been
\* written since and holds "ab", and the manager resolved "ab" to no id
\* without another load.
C29_Witness ==
    /\ Returned("get_user_id_by_name")
    /\ call.name = <<"a","b">>
    /\ ret.id = ""
    /\ workspace_users = <<>>
    /\ has_local_file /\ local_users[1].name = <<"a","b">>
    /\ loads = 1

\* The same after get_workspace_users and with the API back.
C29_WitnessListing ==
    /\ Returned("get_workspace_users")
    /\ ret.users = <<>>
    /\ use_api /\ api_status = "ok" /\ ~has_local_file
    /\ api_calls = 1 /\ loads = 1

\* C30: a router module holds at most one manager.  While the module global
\* is set, every step keeps the instance and neither constructs nor loads;
\* a construction that raises leaves the global unset, one that returns sets
\* it to the manager just made, so that after a failure the global is unset
\* and the next call of get_workspace_manager constructs again.
C30_OneManagerPerModule ==
    [][/\ instance # 0 =>
            (instance' = instance /\ constructions' = constructions /\ loads' = loads)
       /\ (instance = 0 /\ constructions' # constructions) =>
            /\ constructions' = constructions + 1
            /\ instance' = (IF pc' = "failed" THEN 0 ELSE constructions')
       /\ pc' \in {"idle", "ret"} => instance' # 0
       /\ pc' = "failed" => instance' = 0
       /\ (pc = "failed" /\ pc' # "failed") =>
            (constructions' = constructions + 1 /\ instance' = constructions')]_vars

\* The first construction raised; the file was written anew; the second call
\* constructed again, and the manager it made is the one that serves.
C30_Witness ==
    /\ pc = "ret"
    /\ constructions = 2 /\ instance = 2 /\ loads = 2
    /\ workspace_users # <<>>
    /\ ret.id # ""

====
